---- MODULE Spec2Model ----
(***************************************************************************)
(* A model of the bellman-examples repository: the field-constant helper   *)
(* (lib.rs), the cube circuit and its setup/prove/verify run (cube.rs),    *)
(* and the double-SHA-256 circuit with its file-based setup/prove/verify   *)
(* commands (hash.rs).                                                     *)
(*                                                                         *)
(* The libraries the repository calls are modelled at their interface:     *)
(*   - groth16 is ideal: a proof carries the setup it was made under and   *)
(*     the public inputs its witness produces; verification accepts        *)
(*     exactly a matching key and matching inputs (complete and sound);    *)
(*   - SHA-256 is a small deterministic byte-mixing function with a        *)
(*     32-byte digest; the boolean gadget is the same function on bits,    *)
(*     most significant bit of each byte first;                            *)
(*   - a field element produced by multipacking is written as the chunk    *)
(*     of little-endian bits it packs (the chunk is shorter than the       *)
(*     modulus, so the chunk determines the element);                      *)
(*   - the cube circuit's field is Z/FieldP for a small FieldP;            *)
(*   - the file system never fails a write.                                *)
(***************************************************************************)
EXTENDS Integers, Sequences, FiniteSets, TLC

VARIABLES
    files,      \* hash.rs: the working directory, file name -> content
    out,        \* hash.rs: what the last command printed
    last,       \* hash.rs: the last command, its arguments and its outcome
    proved,     \* hash.rs: the witness of the last proof written and the digest printed with it
    gPc, gData, gHash,                  \* sha256d applied to one input
    kPc, kA, kB, kRes,                  \* get_constant applied to a, b, a + b
    cPc, cWit, cPub, cParams, cCs, cProof, cVerified   \* cube.rs main

vars == <<files, out, last, proved, gPc, gData, gHash, kPc, kA, kB, kRes,
          cPc, cWit, cPub, cParams, cCs, cProof, cVerified>>

hashVars == <<files, out, last, proved>>
gadgetVars == <<gPc, gData, gHash>>
constVars == <<kPc, kA, kB, kRes>>
cubeVars == <<cPc, cWit, cPub, cParams, cCs, cProof, cVerified>>

----------------------------------------------------------------------------
(* Bounds of the model *)

\* distinct outcomes of the random trusted setup
NumSetups == 2
\* length of the short preimage file
ShortLen == 10
\* bytes by which the long preimage file exceeds the witness length
ExtraLen == 20
\* byte patterns the preimage files are filled with
NumPatterns == 1
\* largest scalar handed to get_constant
MaxScalar == 36
\* modulus of the model's stand-in for the scalar field
FieldP == 7

(* Constants of the program and of the libraries it calls *)

\* [u8; 80]
PreimageLen == 80
\* chunks(8)
ChunkLen == 8
\* bytes of a SHA-256 digest
DigestLen == 32
\* Fr::CAPACITY of BLS12-381: bits one field element packs
FrCapacity == 254
\* get_constant(5), get_constant(3), get_constant(35)
CubeConstant == 5
CubeWitness == 3
CubePublic == 35

----------------------------------------------------------------------------
(* Bytes and bits *)

Min(a, b) == IF a < b THEN a ELSE b

\* a function on 1..n as the sequence of its values
AsSeq(f) == SubSeq(f, 1, Len(f))

Pow2(k) == 2 ^ k

\* (byte >> i) & 1u8 == 1u8
BitOf(byte, i) == ((byte \div Pow2(i)) % 2) = 1

\* preimage.iter().map(|byte| (0..8).map(move |i| bit i)).flatten()
\* and multipack::bytes_to_bits_le: least significant bit first in each byte
BytesToBitsLE(bytes) ==
    AsSeq([j \in 1..(8 * Len(bytes)) |-> BitOf(bytes[((j - 1) \div 8) + 1], (j - 1) % 8)])

\* the bit order the SHA-256 gadget reads and writes: most significant first
BytesToBitsBE(bytes) ==
    AsSeq([j \in 1..(8 * Len(bytes)) |-> BitOf(bytes[((j - 1) \div 8) + 1], 7 - ((j - 1) % 8))])

BitVal(b) == IF b THEN 1 ELSE 0

BitsLEToBytes(bits) ==
    AsSeq([k \in 1..(Len(bits) \div 8) |->
        LET o == 8 * (k - 1) IN
        BitVal(bits[o + 1]) + 2 * BitVal(bits[o + 2]) + 4 * BitVal(bits[o + 3])
        + 8 * BitVal(bits[o + 4]) + 16 * BitVal(bits[o + 5]) + 32 * BitVal(bits[o + 6])
        + 64 * BitVal(bits[o + 7]) + 128 * BitVal(bits[o + 8])])

BitsBEToBytes(bits) ==
    AsSeq([k \in 1..(Len(bits) \div 8) |->
        LET o == 8 * (k - 1) IN
        128 * BitVal(bits[o + 1]) + 64 * BitVal(bits[o + 2]) + 32 * BitVal(bits[o + 3])
        + 16 * BitVal(bits[o + 4]) + 8 * BitVal(bits[o + 5]) + 4 * BitVal(bits[o + 6])
        + 2 * BitVal(bits[o + 7]) + BitVal(bits[o + 8])])

----------------------------------------------------------------------------
(* SHA-256: the sha2 crate on bytes, the bellman gadget on bits *)

\* the weight of the byte at position i: odd, so that no single changed
\* byte leaves the sum unchanged
Weight(i) == 2 * i * (i + 1) + 1

\* the sum over positions lo..hi of (byte + 1) * weight, modulo 2^16
RECURSIVE Absorb(_, _, _)
Absorb(bytes, lo, hi) ==
    IF lo > hi THEN 0
    ELSE IF lo = hi THEN ((bytes[lo] + 1) * Weight(lo)) % 65536
    ELSE LET mid == (lo + hi) \div 2 IN
         (Absorb(bytes, lo, mid) + Absorb(bytes, mid + 1, hi)) % 65536

\* the digest bytes of the absorbed state s
Squeeze(s) ==
    AsSeq([k \in 1..DigestLen |->
        IF k = 1 THEN s % 256
        ELSE IF k = 2 THEN s \div 256
        ELSE (((s + 131 * k) * (2 * k + 1)) \div 8) % 256])

\* Sha256::digest
Sha256Digest(bytes) == Squeeze((5381 + Absorb(bytes, 1, Len(bytes))) % 65536)

\* bellman::gadgets::sha256::sha256
sha256(bits) == BytesToBitsBE(Sha256Digest(BitsBEToBytes(bits)))

----------------------------------------------------------------------------
(* hash.rs: the double-hash gadget *)

\* data.chunks(8).map(|c| c.iter().rev()).flatten().cloned().collect()
ChunksRev(data) ==
    AsSeq([j \in 1..Len(data) |->
        LET first == ChunkLen * ((j - 1) \div ChunkLen) + 1
            lastIx == Min(first + ChunkLen - 1, Len(data))
        IN data[first + lastIx - j]])

\* a double hash that also reverses between the two applications
sha256d_RevBetween(data) ==
    ChunksRev(sha256(ChunksRev(sha256(ChunksRev(data)))))

sha256d(data) ==
    LET input == ChunksRev(data)
        mid == sha256(input)
        res == sha256(mid)
    IN ChunksRev(res)

----------------------------------------------------------------------------
(* base64: a string is a sequence of symbols, 0..63 an alphabet index *)

\* '='
PadSym == 64
\* a character outside the alphabet
BadSym == 65

ByteAt(bytes, i) == IF i <= Len(bytes) THEN bytes[i] ELSE 0

\* base64::encode
Base64Encode(bytes) ==
    AsSeq([j \in 1..(4 * ((Len(bytes) + 2) \div 3)) |->
        LET g == (j - 1) \div 4
            pos == (j - 1) % 4
            b0 == ByteAt(bytes, 3 * g + 1)
            b1 == ByteAt(bytes, 3 * g + 2)
            b2 == ByteAt(bytes, 3 * g + 3)
        IN  IF pos = 0 THEN b0 \div 4
            ELSE IF pos = 1 THEN (b0 % 4) * 16 + (b1 \div 16)
            ELSE IF pos = 2
                 THEN IF 3 * g + 2 > Len(bytes) THEN PadSym ELSE (b1 % 16) * 4 + (b2 \div 64)
            ELSE IF 3 * g + 3 > Len(bytes) THEN PadSym ELSE b2 % 64])

\* number of trailing '=' of a string (at most two count)
PadCount(str) ==
    IF Len(str) >= 1 /\ str[Len(str)] = PadSym
    THEN IF Len(str) >= 2 /\ str[Len(str) - 1] = PadSym THEN 2 ELSE 1
    ELSE 0

\* the string is whole groups of alphabet symbols, '=' only closing the last group
Base64Valid(str) ==
    /\ Len(str) % 4 = 0
    /\ \A j \in 1..Len(str) :
          \/ str[j] \in 0..63
          \/ str[j] = PadSym /\ j > Len(str) - PadCount(str)

SymAt(str, j) == IF str[j] = PadSym THEN 0 ELSE str[j]

\* base64::decode: Err on a malformed string, else the bytes
Base64Decode(str) ==
    IF ~Base64Valid(str) THEN [ok |-> FALSE, bytes |-> <<>>]
    ELSE [ok |-> TRUE,
          bytes |-> AsSeq(
            [k \in 1..(3 * (Len(str) \div 4) - PadCount(str)) |->
                LET g == (k - 1) \div 3
                    r == (k - 1) % 3
                    s0 == SymAt(str, 4 * g + 1)
                    s1 == SymAt(str, 4 * g + 2)
                    s2 == SymAt(str, 4 * g + 3)
                    s3 == SymAt(str, 4 * g + 4)
                IN  IF r = 0 THEN s0 * 4 + (s1 \div 16)
                    ELSE IF r = 1 THEN (s1 % 16) * 16 + (s2 \div 4)
                    ELSE (s2 % 4) * 64 + s3])]

----------------------------------------------------------------------------
(* multipack and the hash circuit *)

\* bits.chunks(Fr::CAPACITY): one field element per chunk, little-endian
Multipack(bits) ==
    AsSeq([c \in 1..((Len(bits) + FrCapacity - 1) \div FrCapacity) |->
        SubSeq(bits, FrCapacity * (c - 1) + 1, Min(FrCapacity * c, Len(bits)))])

\* multipack::compute_multipacking
compute_multipacking(bits) == Multipack(bits)

\* multipack::pack_into_inputs: the public inputs it allocates
pack_into_inputs(bits) == Multipack(bits)

\* HashCircuit::synthesize with Some(preimage): the public inputs it assigns
HashSynthesize(preimage) ==
    LET preimage_bits == BytesToBitsLE(preimage)
        hash == sha256d(preimage_bits)
    IN pack_into_inputs(hash)

----------------------------------------------------------------------------
(* hash.rs: files and the ideal groth16 *)

FileNames == {"params", "vk", "proof"}

\* a path that names no file
NoSuchPath == "nofile"

NoFile == [type |-> "none", id |-> 0, statement |-> <<>>]

\* groth16::Parameters as written by params.write: the outcome id of the setup
ParamsFile(id) == [type |-> "params", id |-> id, statement |-> <<>>]

\* params.vk as written by params.vk.write
VkOf(params) == [type |-> "vk", id |-> params.id, statement |-> <<>>]

\* groth16::Proof as written by proof.write
ProofFile(id, statement) == [type |-> "proof", id |-> id, statement |-> statement]

Lookup(fs, path) == IF path \in DOMAIN fs THEN fs[path] ELSE NoFile

\* File::open(path) is Ok; Path::new(path).exists()
Exists(fs, path) == Lookup(fs, path).type # "none"

\* groth16::Parameters::read, groth16::VerifyingKey::read, groth16::Proof::read
\* are Ok on a file of their own layout
ReadOk(fs, path, type) == Lookup(fs, path).type = type

\* groth16::generate_random_parameters(HashCircuit::default(), rng)
generate_random_parameters(rnd) == ParamsFile(rnd)

\* groth16::create_random_proof(circuit, &params, rng)
create_random_proof(preimage, params) == ProofFile(params.id, HashSynthesize(preimage))

\* groth16::verify_proof(&pvk, &proof, &inputs)
groth16_verify_proof(vk, proof, inputs) ==
    vk.id = proof.id /\ inputs = proof.statement

NoOut == [lines |-> <<>>, digest |-> <<>>, verified |-> "none"]

\* no proof written yet
NoProved == [exists |-> FALSE, witness |-> <<>>, printed |-> <<>>]

BoolStr(b) == IF b THEN "true" ELSE "false"

----------------------------------------------------------------------------
(* hash.rs: generate_params *)

\* the trusted setup always rerun, whatever files exist
generate_params_Always(fs, rnd) ==
    LET params == generate_random_parameters(rnd) IN
    [files |-> [fs EXCEPT !["params"] = params, !["vk"] = VkOf(params)],
     out |-> [NoOut EXCEPT !.lines = <<"Generating parameters...">>],
     result |-> "ok"]

generate_params(fs, rnd) ==
    LET setup(fs0) ==
            LET params == generate_random_parameters(rnd) IN
            [files |-> [fs0 EXCEPT !["params"] = params, !["vk"] = VkOf(params)],
             out |-> [NoOut EXCEPT !.lines = <<"Generating parameters...">>],
             result |-> "ok"]
    IN  IF Exists(fs, "params")
        THEN IF Exists(fs, "vk")
             THEN [files |-> fs, out |-> NoOut, result |-> "ok"]
             ELSE IF ~ReadOk(fs, "params", "params")
             THEN [files |-> fs, out |-> NoOut, result |-> "err"]
             ELSE setup([fs EXCEPT !["vk"] = VkOf(fs["params"])])
        ELSE setup(fs)

----------------------------------------------------------------------------
(* hash.rs: generate_proof *)

\* for (i, byte) in preimage.into_iter().enumerate() { if i == 80 { break; } ... }
\* the indices (from 0) whose byte the loop stores: those it reaches before
\* the index at which it breaks
Stored(preimage, breakAt) ==
    {i \in 0..(Len(preimage) - 1) : breakAt \notin 0..i}

\* let mut preimage_truncated = [0u8; 80]; preimage_truncated[i] = byte;
Truncate(preimage, breakAt) ==
    LET stored == Stored(preimage, breakAt) IN
    AsSeq([k \in 1..PreimageLen |-> IF (k - 1) \in stored THEN preimage[k] ELSE 0])

\* the loop breaking one byte early: if i == 79 { break; }
Normalize_Break79(preimage) == Truncate(preimage, PreimageLen - 1)

Normalize(preimage) == Truncate(preimage, PreimageLen)

NoPreimage == [exists |-> FALSE, bytes |-> <<>>]

\* generate_proof printing the digest hashed twice
generate_proof_write_DoubleDigest(fs, preimage_truncated, params) ==
    [files |-> [fs EXCEPT !["proof"] = create_random_proof(preimage_truncated, params)],
     out |-> [lines |-> <<"Creating proofs...",
                          "Creating groth16 proof with parameters...",
                          "Digest">>,
              digest |-> Base64Encode(Sha256Digest(Sha256Digest(preimage_truncated))),
              verified |-> "none"],
     result |-> "ok", witness |-> preimage_truncated]

\* generate_proof writing the proof over the verifying key: .open("vk")
generate_proof_write_ToVk(fs, preimage_truncated, params) ==
    [files |-> [fs EXCEPT !["vk"] = create_random_proof(preimage_truncated, params)],
     out |-> [lines |-> <<"Creating proofs...",
                          "Creating groth16 proof with parameters...",
                          "Digest">>,
              digest |-> Base64Encode(Sha256Digest(preimage_truncated)),
              verified |-> "none"],
     result |-> "ok", witness |-> preimage_truncated]

\* generate_proof from the creation of the circuit on: the proof is written
\* and the digest printed
generate_proof_write(fs, preimage_truncated, params) ==
    [files |-> [fs EXCEPT !["proof"] = create_random_proof(preimage_truncated, params)],
     out |-> [lines |-> <<"Creating proofs...",
                          "Creating groth16 proof with parameters...",
                          "Digest">>,
              digest |-> Base64Encode(Sha256Digest(preimage_truncated)),
              verified |-> "none"],
     result |-> "ok", witness |-> preimage_truncated]

\* the result of generate_proof: the files, the output, Ok or Err, and the
\* witness handed to the circuit
generate_proof(fs, preimage, params) ==
    IF ~Exists(fs, params) \/ ~ReadOk(fs, params, "params")
    THEN [files |-> fs, out |-> NoOut, result |-> "err", witness |-> <<>>]
    ELSE IF ~preimage.exists
    THEN [files |-> fs,
          out |-> [NoOut EXCEPT !.lines = <<"Creating proofs...">>],
          result |-> "err", witness |-> <<>>]
    ELSE generate_proof_write(fs, Normalize(preimage.bytes), Lookup(fs, params))

----------------------------------------------------------------------------
(* hash.rs: verify_proof *)

\* verify_proof from the call of groth16::verify_proof on
verify_proof_call(vk, proof, inputs) ==
    [out |-> [lines |-> <<"Loading verification key and proof...",
                          "Verifying proof...",
                          "Proof successfully verified?">>,
              digest |-> <<>>,
              verified |-> BoolStr(groth16_verify_proof(vk, proof, inputs))],
     result |-> "ok", called |-> TRUE, inputs |-> inputs]

\* verify_proof taking the decoded bytes for the final digest: no second hash
verify_proof_decoded_NoRehash(vk, proof, decoded) ==
    IF ~decoded.ok
    THEN [out |-> [NoOut EXCEPT !.lines = <<"Loading verification key and proof...",
                                            "Verifying proof...">>],
          result |-> "err", called |-> FALSE, inputs |-> <<>>]
    ELSE verify_proof_call(vk, proof, compute_multipacking(BytesToBitsLE(decoded.bytes)))

\* verify_proof taking an undecodable string for a failed verification:
\* base64::decode(&hash).unwrap_or_default()
verify_proof_decoded_IgnoreDecodeErr(vk, proof, decoded) ==
    verify_proof_call(vk, proof,
        compute_multipacking(BytesToBitsLE(Sha256Digest(decoded.bytes))))

\* verify_proof from base64::decode on
verify_proof_decoded(vk, proof, decoded) ==
    IF ~decoded.ok
    THEN [out |-> [NoOut EXCEPT !.lines = <<"Loading verification key and proof...",
                                            "Verifying proof...">>],
          result |-> "err", called |-> FALSE, inputs |-> <<>>]
    ELSE verify_proof_call(vk, proof,
            compute_multipacking(BytesToBitsLE(Sha256Digest(decoded.bytes))))

\* the result of verify_proof: the output, Ok or Err, whether
\* groth16::verify_proof was called and the public inputs handed to it
verify_proof(fs, hash, proof, vk) ==
    IF \/ ~Exists(fs, vk) \/ ~ReadOk(fs, vk, "vk")
       \/ ~Exists(fs, proof) \/ ~ReadOk(fs, proof, "proof")
    THEN [out |-> [NoOut EXCEPT !.lines = <<"Loading verification key and proof...">>],
          result |-> "err", called |-> FALSE, inputs |-> <<>>]
    ELSE verify_proof_decoded(Lookup(fs, vk), Lookup(fs, proof), Base64Decode(hash))

----------------------------------------------------------------------------
(* hash.rs: the inputs the commands are run with *)

\* a preimage file of n bytes filled with pattern k; pattern 1 is all 0x2A
PreimageBytes(n, k) == AsSeq([i \in 1..n |-> (42 * k + 7 * (k - 1) * i) % 256])

PreimageLens ==
    {0, ShortLen, PreimageLen - 1, PreimageLen, PreimageLen + 1, PreimageLen + ExtraLen}

Preimages == {PreimageBytes(n, k) : n \in PreimageLens, k \in 1..NumPatterns}

PreimageArgs == {NoPreimage} \cup {[exists |-> TRUE, bytes |-> p] : p \in Preimages}

\* the string generate_proof prints for a preimage file
Reported(p) == Base64Encode(Sha256Digest(Normalize(p)))

\* a string with its first symbol replaced by the next of the alphabet
Tampered(str) == [str EXCEPT ![1] = (str[1] + 1) % 64]

\* a string with a character outside the alphabet in it
Malformed(str) == [str EXCEPT ![2] = BadSym]

\* the all-0x2A preimage of exactly the witness length, and what is printed for it
Preimage2A == [exists |-> TRUE, bytes |-> PreimageBytes(PreimageLen, 1)]
Reported2A == Reported(Preimage2A.bytes)

\* the strings given for the all-0x2A preimage: the one printed, the base64 of
\* its double digest, the one printed with a symbol changed, with a symbol
\* that is not base64, and the empty string
HashArgs2A ==
    {Reported2A,
     Base64Encode(Sha256Digest(Sha256Digest(Normalize(Preimage2A.bytes)))),
     Tampered(Reported2A), Malformed(Reported2A), <<>>}

HashArgs == {Reported(p) : p \in Preimages} \cup HashArgs2A

\* generate_proof <preimage> --params <params>: every preimage file under the
\* default parameters path, and one preimage under a path that holds another
\* layout and under a path that names no file
ProveArgs ==
    {<<p, "params">> : p \in PreimageArgs}
    \cup {<<Preimage2A, "vk">>, <<Preimage2A, NoSuchPath>>}

ProveArgs2A ==
    {<<Preimage2A, "params">>, <<NoPreimage, "params">>,
     <<Preimage2A, "vk">>, <<Preimage2A, NoSuchPath>>}

\* one string under paths that hold another layout or name no file
BadPathArgs ==
    {<<Reported2A, "vk", "vk">>, <<Reported2A, "proof", "proof">>,
     <<Reported2A, NoSuchPath, "vk">>, <<Reported2A, "proof", NoSuchPath>>}

\* verify_proof <hash> --proof <proof> --vk <vk>: every string under the
\* default paths, and the paths that cannot be read
VerifyArgs == {<<h, "proof", "vk">> : h \in HashArgs} \cup BadPathArgs

VerifyArgs2A == {<<h, "proof", "vk">> : h \in HashArgs2A} \cup BadPathArgs

----------------------------------------------------------------------------
(* The states of the specifications that are not running *)

IdleHash ==
    /\ files = [f \in FileNames |-> NoFile]
    /\ out = NoOut
    /\ last = [op |-> "none", result |-> "ok", before |-> [f \in FileNames |-> NoFile],
               preimage |-> NoPreimage, params |-> "", proof |-> "", vk |-> "",
               hash |-> <<>>, witness |-> <<>>, called |-> FALSE, inputs |-> <<>>]
    /\ proved = NoProved

IdleGadget == gPc = "idle" /\ gData = <<>> /\ gHash = <<>>

IdleConst == kPc = "idle" /\ kA = 0 /\ kB = 0 /\ kRes = <<>>

IdleCube ==
    /\ cPc = "idle" /\ cWit = 0 /\ cPub = 0 /\ cParams = 0
    /\ cCs = <<>> /\ cProof = <<>> /\ cVerified = "none"

----------------------------------------------------------------------------
(* hash.rs: main, one command per step *)

\* Opt::GenerateParams => generate_params()
GenerateParams ==
    \E rnd \in 1..NumSetups :
        \E r \in {generate_params(files, rnd)} :
        /\ files' = r.files
        /\ out' = r.out
        /\ last' = [op |-> "generate_params", result |-> r.result, before |-> files,
                    preimage |-> NoPreimage, params |-> "", proof |-> "", vk |-> "",
                    hash |-> <<>>, witness |-> <<>>, called |-> FALSE, inputs |-> <<>>]
        /\ UNCHANGED <<proved, gadgetVars, constVars, cubeVars>>

\* Opt::GenerateProof { preimage, params } => generate_proof(preimage, params),
\* the arguments taken from argSet
GenerateProofOver(argSet) ==
    \E args \in argSet :
        \E preimage \in {args[1]}, params \in {args[2]} :
        \E r \in {generate_proof(files, preimage, params)} :
        /\ files' = r.files
        /\ out' = r.out
        /\ last' = [op |-> "generate_proof", result |-> r.result, before |-> files,
                    preimage |-> preimage, params |-> params, proof |-> "", vk |-> "",
                    hash |-> <<>>, witness |-> r.witness, called |-> FALSE,
                    inputs |-> <<>>]
        /\ proved' = IF r.result = "ok"
                     THEN [exists |-> TRUE, witness |-> r.witness, printed |-> r.out.digest]
                     ELSE proved
        /\ UNCHANGED <<gadgetVars, constVars, cubeVars>>

\* Opt::VerifyProof { hash, proof, vk } => verify_proof(hash, proof, vk),
\* the arguments taken from argSet
VerifyProofOver(argSet) ==
    \E args \in argSet :
        \E hash \in {args[1]}, proof \in {args[2]}, vk \in {args[3]} :
        \E r \in {verify_proof(files, hash, proof, vk)} :
        /\ out' = r.out
        /\ last' = [op |-> "verify_proof", result |-> r.result, before |-> files,
                    preimage |-> NoPreimage, params |-> "", proof |-> proof, vk |-> vk,
                    hash |-> hash, witness |-> <<>>, called |-> r.called,
                    inputs |-> r.inputs]
        /\ UNCHANGED <<files, proved, gadgetVars, constVars, cubeVars>>

GenerateProof == GenerateProofOver(ProveArgs)

VerifyProof == VerifyProofOver(VerifyArgs)

\* the commands run on the all-0x2A preimage alone
GenerateProof2A == GenerateProofOver(ProveArgs2A)

VerifyProof2A == VerifyProofOver(VerifyArgs2A)

\* an empty working directory
Init == IdleHash /\ IdleGadget /\ IdleConst /\ IdleCube

\* a file of another layout
JunkFile == [type |-> "junk", id |-> 0, statement |-> <<>>]

\* a working directory that holds any parameters file and any key file
InitStorage ==
    /\ files \in [FileNames ->
                    {NoFile, JunkFile}
                    \cup {ParamsFile(i) : i \in 1..NumSetups}
                    \cup {VkOf(ParamsFile(i)) : i \in 1..NumSetups}]
    /\ files["params"].type \in {"none", "junk", "params"}
    /\ files["vk"].type \in {"none", "junk", "vk"}
    /\ files["proof"] = NoFile
    /\ out = NoOut
    /\ last = [op |-> "none", result |-> "ok", before |-> files,
               preimage |-> NoPreimage, params |-> "", proof |-> "", vk |-> "",
               hash |-> <<>>, witness |-> <<>>, called |-> FALSE, inputs |-> <<>>]
    /\ proved = NoProved
    /\ IdleGadget /\ IdleConst /\ IdleCube

Next == GenerateParams \/ GenerateProof \/ VerifyProof

Spec == Init /\ [][Next]_vars

NextStorage == GenerateParams \/ GenerateProof2A \/ VerifyProof2A

SpecStorage == InitStorage /\ [][NextStorage]_vars

----------------------------------------------------------------------------
(* sha256d applied to one bit sequence *)

\* every bit pattern of one byte, and the bits of the preimage files as
\* HashCircuit::synthesize lays them out
GadgetInputs ==
    [1..ChunkLen -> BOOLEAN]
    \cup {BytesToBitsLE(p) : p \in {q \in Preimages : Len(q) > 0}}

InitGadget ==
    /\ gPc = "start" /\ gData \in GadgetInputs /\ gHash = <<>>
    /\ IdleHash /\ IdleConst /\ IdleCube

\* let hash = sha256d(cs.namespace(|| "SHA-256d(preimage)"), &preimage_bits)?;
Sha256dStep ==
    /\ gPc = "start"
    /\ gHash' = sha256d(gData)
    /\ gPc' = "done"
    /\ UNCHANGED <<gData, hashVars, constVars, cubeVars>>

SpecGadget == InitGadget /\ [][Sha256dStep]_vars

----------------------------------------------------------------------------
(* lib.rs: get_constant over the field Z/FieldP *)

Fr == 0..(FieldP - 1)

\* Fr::zero(), Fr::one()
FrZero == 0
FrOne == 1 % FieldP

\* add_assign, mul_assign, square
FrAdd(a, b) == (a + b) % FieldP
FrMul(a, b) == (a * b) % FieldP
FrSquare(a) == (a * a) % FieldP

\* for _ in 0..scalar { x.add_assign(&one); } as the state [x, i] of the
\* loop, i the iterations done: run from st up to hi iterations, the first
\* half of what is left, then the rest
RECURSIVE AddLoop(_, _, _)
AddLoop(st, one, hi) ==
    IF st.i >= hi THEN st
    ELSE IF st.i + 1 = hi THEN [x |-> FrAdd(st.x, one), i |-> st.i + 1]
    ELSE AddLoop(AddLoop(st, one, (st.i + hi) \div 2), one, hi)

\* the loop run once more than asked: for _ in 0..=scalar
get_constant_run_Inclusive(scalar) ==
    AddLoop([x |-> FrZero, i |-> 0], FrOne, scalar + 1)

\* get_constant with the number of additions it made
get_constant_run(scalar) == AddLoop([x |-> FrZero, i |-> 0], FrOne, scalar)

get_constant(scalar) == get_constant_run(scalar).x

InitConst ==
    /\ kPc = "start" /\ kA \in 0..MaxScalar /\ kB \in 0..MaxScalar /\ kRes = <<>>
    /\ IdleHash /\ IdleGadget /\ IdleCube

\* get_constant called on a, on b and on a + b
GetConstants ==
    /\ kPc = "start"
    /\ kRes' = <<get_constant_run(kA), get_constant_run(kB), get_constant_run(kA + kB)>>
    /\ kPc' = "done"
    /\ UNCHANGED <<kA, kB, hashVars, gadgetVars, cubeVars>>

SpecConst == InitConst /\ [][GetConstants]_vars

----------------------------------------------------------------------------
(* cube.rs: CubeCircuit on a constraint system *)

\* Option<E::Fr>
None == [some |-> FALSE, val |-> 0]
Some(v) == [some |-> TRUE, val |-> v]

\* variables of the constraint system; CS::one() is input 0
InputVar(i) == <<"input", i>>
AuxVar(i) == <<"aux", i>>
CsOne == InputVar(0)

\* the value a satisfying assignment gives a variable
ValueOf(cs, var) ==
    IF var[1] = "input" THEN cs.input_assignment[var[2] + 1]
    ELSE cs.aux_assignment[var[2] + 1]

\* a linear combination is a sequence of <<coefficient, variable>>
RECURSIVE EvalLC(_, _, _)
EvalLC(cs, lc, k) ==
    IF k > Len(lc) THEN FrZero
    ELSE FrAdd(FrMul(lc[k][1], ValueOf(cs, lc[k][2])), EvalLC(cs, lc, k + 1))

\* (A) * (B) = (C) for every constraint enforced
Satisfied(cs) ==
    \A k \in 1..Len(cs.constraints) :
        FrMul(EvalLC(cs, cs.constraints[k].a, 1), EvalLC(cs, cs.constraints[k].b, 1))
            = EvalLC(cs, cs.constraints[k].c, 1)

\* a circuit whose second constraint multiplies z1 by itself: z1 * z1 = z2
CubeConstraints_SquareZ1(constant) ==
    LET x == AuxVar(0)
        z1 == AuxVar(1)
        z2 == AuxVar(2)
        y == InputVar(1)
    IN << [a |-> << <<FrOne, x>> >>, b |-> << <<FrOne, x>> >>, c |-> << <<FrOne, z1>> >>],
          [a |-> << <<FrOne, z1>> >>, b |-> << <<FrOne, z1>> >>, c |-> << <<FrOne, z2>> >>],
          [a |-> << <<FrOne, z2>>, <<FrOne, x>>, <<constant, CsOne>> >>,
           b |-> << <<FrOne, CsOne>> >>,
           c |-> << <<FrOne, y>> >>] >>

\* the three constraints of synthesize, for the constant it computes
CubeConstraints(constant) ==
    LET x == AuxVar(0)
        z1 == AuxVar(1)
        z2 == AuxVar(2)
        y == InputVar(1)
    IN << [a |-> << <<FrOne, x>> >>, b |-> << <<FrOne, x>> >>, c |-> << <<FrOne, z1>> >>],
          [a |-> << <<FrOne, z1>> >>, b |-> << <<FrOne, x>> >>, c |-> << <<FrOne, z2>> >>],
          [a |-> << <<FrOne, z2>>, <<FrOne, x>>, <<constant, CsOne>> >>,
           b |-> << <<FrOne, CsOne>> >>,
           c |-> << <<FrOne, y>> >>] >>

\* synthesize when the engine asks for no value (the key generator): the
\* value closures are never called, the variables and constraints are counted
CubeSynthesizeShape ==
    [ok |-> TRUE, num_inputs |-> 2, num_aux |-> 3,
     input_assignment |-> <<>>, aux_assignment |-> <<>>,
     constraints |-> CubeConstraints(get_constant(CubeConstant))]

\* synthesize when the engine asks for every value (the prover)
CubeSynthesizeAssigned(x_val) ==
    IF ~x_val.some
    THEN [ok |-> FALSE, num_inputs |-> 1, num_aux |-> 0,
          input_assignment |-> <<FrOne>>, aux_assignment |-> <<>>,
          constraints |-> <<>>]
    ELSE LET z1_val == FrSquare(x_val.val)
             z2_val == FrMul(z1_val, x_val.val)
             constant == get_constant(CubeConstant)
             tmp == FrAdd(FrAdd(z2_val, x_val.val), constant)
         IN [ok |-> TRUE, num_inputs |-> 2, num_aux |-> 3,
             input_assignment |-> <<FrOne, tmp>>,
             aux_assignment |-> <<x_val.val, z1_val, z2_val>>,
             constraints |-> CubeConstraints(constant)]

----------------------------------------------------------------------------
(* cube.rs: main *)

\* generate_random_parameters(CubeCircuit::default(), rng)
CubeParameters(rnd) == [id |-> rnd, shape |-> CubeSynthesizeShape]

\* create_random_proof(circuit, &params, rng): the proof of an ideal groth16
\* is valid when the assignment satisfies the constraints
CubeProof(cs, params) ==
    [id |-> params.id, statement |-> Tail(cs.input_assignment), valid |-> Satisfied(cs)]

\* verify_proof(&pvk, &proof, &[..])
CubeVerify(pvk, proof, inputs) ==
    pvk.id = proof.id /\ proof.valid /\ inputs = proof.statement

\* the scalars of the public input the run is made with
PublicArgs == {0, CubePublic - 1, CubePublic, MaxScalar}

\* main with the witness get_constant(cWit) and the public input
\* get_constant(cPub); the program's are 3 and 35
InitCube ==
    /\ cPc = "start" /\ cWit \in 0..MaxScalar /\ cPub \in PublicArgs
    /\ cParams = 0 /\ cCs = <<>> /\ cProof = <<>> /\ cVerified = "none"
    /\ IdleHash /\ IdleGadget /\ IdleConst

\* let params = generate_random_parameters(circuit, &mut rng)?;
\* let pvk = prepare_verifying_key(&params.vk);
CubeSetup ==
    /\ cPc = "start"
    /\ \E rnd \in 1..NumSetups : cParams' = CubeParameters(rnd)
    /\ cPc' = "params"
    /\ UNCHANGED <<cWit, cPub, cCs, cProof, cVerified, hashVars, gadgetVars, constVars>>

\* let circuit = CubeCircuit::<Bls12>::new(get_constant::<Fr>(3));
\* let proof = create_random_proof(circuit, &params, &mut rng)?;
CubeProve ==
    /\ cPc = "params"
    /\ \E cs \in {CubeSynthesizeAssigned(Some(get_constant(cWit)))} :
          /\ cs.ok
          /\ cCs' = cs
          /\ cProof' = CubeProof(cs, cParams)
    /\ cPc' = "proof"
    /\ UNCHANGED <<cWit, cPub, cParams, cVerified, hashVars, gadgetVars, constVars>>

\* let verified = verify_proof(&pvk, &proof, &[get_constant::<Fr>(35)])?;
CubeVerifyStep ==
    /\ cPc = "proof"
    /\ cVerified' = BoolStr(CubeVerify(cParams, cProof, <<get_constant(cPub)>>))
    /\ cPc' = "done"
    /\ UNCHANGED <<cWit, cPub, cParams, cCs, cProof, hashVars, gadgetVars, constVars>>

NextCube == CubeSetup \/ CubeProve \/ CubeVerifyStep

SpecCube == InitCube /\ [][NextCube]_vars

----------------------------------------------------------------------------
(* Properties of generate_params *)

SetupRan == last.op = "generate_params"

\* C1: generate_params run with the parameters file present and the key file
\* absent leaves the parameters file as it was and writes the key of those
\* parameters.
C1_SetupDerivesKeyOnly ==
    (SetupRan /\ last.result = "ok"
        /\ last.before["params"].type = "params" /\ last.before["vk"].type = "none")
    => /\ files["params"] = last.before["params"]
       /\ files["vk"] = VkOf(last.before["params"])

\* C2: generate_params run with both files present returns Ok, prints
\* nothing (no setup is run) and leaves every file as it was.
C2_SetupNoOp ==
    (SetupRan /\ Exists(last.before, "params") /\ Exists(last.before, "vk"))
    => /\ last.result = "ok"
       /\ out = NoOut
       /\ files = last.before

C2_Witness ==
    /\ SetupRan
    /\ last.before["params"].type = "params" /\ last.before["vk"].type = "vk"
    /\ files = last.before

----------------------------------------------------------------------------
(* Properties of generate_proof *)

Proved == last.op = "generate_proof" /\ last.result = "ok"

\* C3 as claimed: generate_proof prints the base64 of SHA-256 applied twice
\* to the normalized preimage.
C3_ReportsDoubleDigest ==
    Proved =>
        out.digest = Base64Encode(Sha256Digest(Sha256Digest(Normalize(last.preimage.bytes))))

\* C3 as amended: generate_proof prints the base64 of SHA-256 applied once to
\* the normalized preimage; the public inputs of the proof it wrote are the
\* packing of the SHA-256 of the bytes that string decodes to.
C3_ReportsSingleDigest ==
    Proved =>
        /\ out.digest = Base64Encode(Sha256Digest(Normalize(last.preimage.bytes)))
        /\ Base64Decode(out.digest).ok
        /\ files["proof"].statement =
             Multipack(BytesToBitsLE(Sha256Digest(Base64Decode(out.digest).bytes)))

C3_Witness == Proved /\ Len(last.preimage.bytes) = PreimageLen /\ Len(out.digest) = 44

\* C5: the witness of the circuit is 80 bytes, the input's bytes where the
\* input has them and 0 after; the digest printed is that of this witness,
\* and differs from the digest of the raw input when the two differ.
C5_Normalization ==
    Proved =>
        /\ Len(last.witness) = PreimageLen
        /\ \A i \in 1..PreimageLen :
              last.witness[i] =
                  IF i <= Len(last.preimage.bytes) THEN last.preimage.bytes[i] ELSE 0
        /\ out.digest = Base64Encode(Sha256Digest(last.witness))
        /\ files["proof"].statement = HashSynthesize(last.witness)
        /\ last.witness # last.preimage.bytes
              => out.digest # Base64Encode(Sha256Digest(last.preimage.bytes))

C5_Witness ==
    /\ Proved
    /\ Len(last.preimage.bytes) > PreimageLen
    /\ last.witness = SubSeq(last.preimage.bytes, 1, PreimageLen)

----------------------------------------------------------------------------
(* Properties of verify_proof *)

Verified == last.op = "verify_proof"

\* verify_proof run on the files generate_params and generate_proof wrote
VerifiedStored == Verified /\ last.result = "ok" /\ last.proof = "proof" /\ last.vk = "vk"

\* C4: verify_proof given the stored proof and key and the string that
\* generate_proof printed with that proof hands groth16 the packing of the double SHA-256 of the
\* normalized preimage, which are the proof's public inputs, and prints
\* true; given a string that decodes to other bytes it prints false.
C4_EndToEnd ==
    (VerifiedStored /\ proved.exists) =>
        LET digest == Sha256Digest(Sha256Digest(proved.witness)) IN
        /\ last.hash = proved.printed
              => /\ last.inputs = Multipack(BytesToBitsLE(digest))
                 /\ last.inputs = files["proof"].statement
                 /\ out.verified = "true"
        /\ Base64Decode(last.hash).bytes # Base64Decode(proved.printed).bytes
              => out.verified = "false"

C4_Witness ==
    /\ VerifiedStored /\ proved.exists
    /\ last.hash = proved.printed
    /\ out.verified = "true"

\* a string that decodes to other bytes than the printed one was refused
C4_WitnessOther ==
    /\ VerifiedStored /\ proved.exists
    /\ Base64Decode(last.hash).bytes # Base64Decode(proved.printed).bytes
    /\ out.verified = "false"

\* C7: verify_proof with a key or proof file it cannot read, or a string that
\* is not base64, returns Err without calling groth16::verify_proof and
\* without printing a result; otherwise it returns Ok and prints true or
\* false, false exactly when the proof does not fit the key and the inputs.
C7_VerifyOutcomes ==
    Verified =>
        LET vk == Lookup(last.before, last.vk)
            proof == Lookup(last.before, last.proof)
            unreadable == vk.type # "vk" \/ proof.type # "proof"
        IN IF unreadable \/ ~Base64Valid(last.hash)
           THEN last.result = "err" /\ ~last.called /\ out.verified = "none"
           ELSE /\ last.result = "ok" /\ last.called
                /\ out.verified \in {"true", "false"}
                /\ out.verified = "false"
                     <=> (vk.id # proof.id \/ last.inputs # proof.statement)

C7_Witness ==
    /\ Verified /\ last.result = "ok" /\ last.called /\ out.verified = "false"
    /\ Lookup(last.before, last.proof).type = "proof"

\* C10: whenever the key file exists, the parameters file exists and the key
\* is the key of those parameters; generate_proof and verify_proof leave both
\* files as they were; a stored proof was made under the stored parameters.
C10_Artifacts ==
    /\ Exists(files, "vk")
          => files["params"].type = "params" /\ files["vk"] = VkOf(files["params"])
    /\ last.op \in {"generate_proof", "verify_proof"}
          => files["params"] = last.before["params"] /\ files["vk"] = last.before["vk"]
    /\ Exists(files, "proof")
          => /\ files["proof"].type = "proof"
             /\ groth16_verify_proof(files["vk"], files["proof"], files["proof"].statement)

C10_Witness ==
    /\ Proved /\ last.params = "params"
    /\ Exists(files, "vk") /\ Exists(files, "proof")

----------------------------------------------------------------------------
(* Properties of sha256d *)

\* the bit order reversed inside each group of 8, for a whole number of groups
Rev8(bits) == [j \in 1..Len(bits) |-> bits[8 * ((j - 1) \div 8) + 8 - ((j - 1) % 8)]]

\* C9: the output of sha256d is 256 bits, equals rev8(H(H(rev8(input)))) and,
\* read as bytes, is the SHA-256 of the SHA-256 of the input read as bytes.
C9_DoubleHash ==
    gPc = "done" =>
        /\ Len(gHash) = 256
        /\ gHash = Rev8(sha256(sha256(Rev8(gData))))
        /\ BitsLEToBytes(gHash) = Sha256Digest(Sha256Digest(BitsLEToBytes(gData)))

C9_Witness ==
    /\ gPc = "done"
    /\ gData = BytesToBitsLE([i \in 1..PreimageLen |-> 42])
    /\ Len(gHash) = 256

----------------------------------------------------------------------------
(* Properties of get_constant *)

\* C8: get_constant(a) + get_constant(b) = get_constant(a + b) in the field,
\* get_constant(0) is the additive identity, and get_constant(n) is n mod p,
\* reached by n additions of one.
C8_Additive ==
    kPc = "done" =>
        /\ FrAdd(kRes[1].x, kRes[2].x) = kRes[3].x
        /\ kRes[1].x = kA % FieldP /\ kRes[2].x = kB % FieldP
        /\ kRes[3].x = (kA + kB) % FieldP
        /\ kRes[1].i = kA /\ kRes[2].i = kB /\ kRes[3].i = kA + kB
        /\ kA = 0 => kRes[1].x = FrZero /\ kRes[3].x = kRes[2].x

C8_Witness ==
    /\ kPc = "done" /\ kA > 0 /\ kB > 0 /\ kA + kB > FieldP
    /\ kRes[3].x # kA + kB

----------------------------------------------------------------------------
(* Properties of the cube circuit *)

Cube(x) == (x * x * x + x + CubeConstant) % FieldP

\* C6: the values synthesize assigns satisfy its three constraints; an
\* assignment with the same x satisfies them only with y = x^3 + x + 5; the
\* proof verifies exactly against that y, so for x = 3 against 35 and not 34.
C6_CubeRelation ==
    cPc \in {"proof", "done"} =>
        LET x == cWit % FieldP IN
        /\ Len(cCs.constraints) = 3
        /\ cCs.aux_assignment = <<x, (x * x) % FieldP, (x * x * x) % FieldP>>
        /\ cCs.input_assignment = <<FrOne, Cube(x)>>
        /\ Satisfied(cCs)
        /\ \A z1 \in Fr, z2 \in Fr, y \in Fr :
              Satisfied([cCs EXCEPT !.aux_assignment = <<x, z1, z2>>,
                                    !.input_assignment = <<FrOne, y>>])
                  => y = Cube(x)
        /\ cPc = "done" =>
              /\ cVerified = "true" <=> cPub % FieldP = Cube(x)
              /\ (cWit = CubeWitness /\ cPub = CubePublic) => cVerified = "true"
              /\ (cWit = CubeWitness /\ cPub = CubePublic - 1) => cVerified = "false"

C6_Witness ==
    cPc = "done" /\ cWit = CubeWitness /\ cPub = CubePublic /\ cVerified = "true"

====
